---- MODULE Spec2Model ----
(***************************************************************************)
(* The watch cache of k8s.io/apiserver/pkg/storage/cacher: the cyclic      *)
(* event buffer with its dynamic capacity, the btree-backed store, the     *)
(* continue cache, the freshness gate (waitUntilFreshAndBlock) with its    *)
(* condition variable and one-shot timer, and the readers and the single   *)
(* ingestor that run concurrently under the watchCache RWMutex.            *)
(*                                                                         *)
(* Capacities and durations are scaled down (see the constants below);     *)
(* every other definition follows the Go source statement by statement.   *)
(* btreeStore.keyFunc is taken to be storeElementKey, the key function the *)
(* store is meant to be built with (newBtreeStore drops its argument).     *)
(***************************************************************************)
EXTENDS Integers, Sequences, FiniteSets, TLC

\* ------------------------------------------------------------------ bounds

\* Largest resource version the ingestor supplies.
MaxRV == 5
\* Largest resource version when readers run beside the ingestor.
ConcMaxRV == 2
\* Largest value of the clock when readers run beside the ingestor.
ConcMaxTime == 1
\* Largest value of the clock.
MaxTime == 2
\* Number of reader threads.
NumReaders == 1
\* Largest number of read holds that calls have returned without releasing.
MaxLeaked == 1
\* Largest resource version of an object put into a btreeStore on its own.
MaxStoreRV == 1
\* Largest limit of a prefix read of a btreeStore on its own.
MaxLimit == 2
\* Largest resource version of an object put into an indexed btreeStore.
MaxIndexRV == 2
\* Number of reader threads that list with a limit at the same time.
NumRacers == 2

\* --------------------------------------------------------------- constants

\* blockTimeout (3 s in the source), in clock ticks.
blockTimeout == 1
\* eventFreshDuration (75 s in the source), in clock ticks.
eventFreshDuration == 1
\* defaultLowerBoundCapacity (100 in the source), scaled.
defaultLowerBoundCapacity == 2
\* An upper bound that is not the lower bound times a power of two.
upperBoundCapacityOdd == defaultLowerBoundCapacity + 1

\* defaultUpperBoundCapacity (100 * 1024 in the source), scaled: one doubling.
defaultUpperBoundCapacity == 4

Min(a, b) == IF a < b THEN a ELSE b
Max(a, b) == IF a > b THEN a ELSE b

\* Keys are strings of bytes, written as sequences of byte values
\* (47 is '/', 97 is 'a', 98 is 'b').
Keys == {<<47, 97>>, <<47, 98>>}
Readers == 1..NumReaders
Racers == 1..NumRacers
\* Every reader thread there is.
Threads == Readers \cup Racers
RVs == 1..MaxRV

\* ------------------------------------------------------------------- state

VARIABLES
    capacity,             \* watchCache.capacity
    cache,                \* watchCache.cache: slot -> event
    startIndex,           \* watchCache.startIndex
    endIndex,             \* watchCache.endIndex
    store,                \* watchCache.store: the btree, key -> storeElement
    resourceVersion,      \* watchCache.resourceVersion
    listResourceVersion,  \* watchCache.listResourceVersion
    continueCache,        \* watchCache.continueCache.cache: rv -> cloned tree
    readerCount,          \* RWMutex: number of read holds
    writerHeld,           \* RWMutex: held for writing
    waiters,              \* cond: the readers parked in cond.Wait
    now,                  \* clock.Now()
    ing,                  \* the ingestor (reflector) thread
    rd,                   \* the reader threads
    timer,                \* the wake-up goroutines: the times their timers expire
    misused,              \* a lock was released in a mode it was not held in
    watch,                \* the watcher thread (getAllEventsSinceLocked)
    delivered,            \* events the eventHandler was called with
    hist,                 \* history: what the ingestor has asked for
    bt                    \* a btreeStore on its own, its clone and its last call

vars == <<capacity, cache, startIndex, endIndex, store, resourceVersion,
          listResourceVersion, continueCache, readerCount, writerHeld,
          waiters, now, ing, rd, timer, misused, watch, delivered, hist, bt>>

cacheVars == <<capacity, cache, startIndex, endIndex, store, resourceVersion,
               listResourceVersion, continueCache>>
lockVars == <<readerCount, writerHeld, waiters>>
watchCacheVars == <<cacheVars, lockVars, now, ing, rd, timer, misused, watch,
                    delivered, hist>>

\* ------------------------------------------------------------------ values

\* A runtime.Object: its key (keyFunc) and its resource version (versioner).
Object(k, rv) == [Key |-> k, RV |-> rv]

\* storeElement{Key, Object}.  Labels and Fields are functions of Object.
storeElement(k, obj) == [Key |-> k, Object |-> obj]

\* A nil *watchCacheEvent (an unused slot of the buffer).
NilEvent == [Type |-> "nil", Key |-> <<>>, Object |-> <<>>, PrevObject |-> <<>>,
             ResourceVersion |-> 0, RecordTime |-> 0]

\* watchCacheEvent.  Object and PrevObject are <<>> when nil, <<obj>> otherwise.
watchCacheEvent(type, k, obj, prev, rv, t) ==
    [Type |-> type, Key |-> k, Object |-> obj, PrevObject |-> prev,
     ResourceVersion |-> rv, RecordTime |-> t]

\* storeElement.Less: byte-wise comparison of the keys.
RECURSIVE Less(_, _)
Less(a, b) ==
    IF b = <<>> THEN FALSE
    ELSE IF a = <<>> THEN TRUE
    ELSE IF Head(a) # Head(b) THEN Head(a) < Head(b)
    ELSE Less(Tail(a), Tail(b))

\* strings.HasPrefix(s, p)
HasPrefix(s, p) == Len(p) <= Len(s) /\ SubSeq(s, 1, Len(p)) = p

\* ------------------------------------------------------------- btreeStore

\* The tree is a function from the keys it holds to their storeElement;
\* iteration (Ascend) visits the keys in Less order.

\* btree.Get as used by btreeStore.Get: the item, and the exists result.
\* The source returns (item, false, nil) for an item that is present.
btreeStoreGet(tree, elem) ==
    IF elem.Key \in DOMAIN tree
    THEN [item |-> <<tree[elem.Key]>>, exists |-> FALSE, err |-> FALSE]
    ELSE [item |-> <<>>, exists |-> FALSE, err |-> FALSE]

\* btreeStore.addOrUpdateLocked: tree.ReplaceOrInsert(storeElem).
addOrUpdateLocked(tree, elem) ==
    [k \in DOMAIN tree \cup {elem.Key} |->
        IF k = elem.Key THEN elem ELSE tree[k]]

\* btreeStore.Add / btreeStore.Update
btreeStoreAdd(tree, elem) == [tree |-> addOrUpdateLocked(tree, elem), err |-> FALSE]

\* btreeStore.Delete: tree.Delete(storeElem); an error when nothing was deleted.
btreeStoreDelete(tree, elem) ==
    IF elem.Key \in DOMAIN tree
    THEN [tree |-> [k \in DOMAIN tree \ {elem.Key} |-> tree[k]], err |-> FALSE]
    ELSE [tree |-> tree, err |-> TRUE]

\* btreeStore.Replace: tree.Clear, then addOrUpdateLocked for each object.
btreeStoreReplace(tree, elems) ==
    [k \in {e.Key : e \in elems} |-> CHOOSE e \in elems : e.Key = k]

\* btreeStore.Clone: a copy-on-write clone of the tree.
Clone(tree) == tree

\* The keys of a tree in ascending order (tree.Ascend).
RECURSIVE Ascend(_)
Ascend(ks) ==
    IF ks = {} THEN <<>>
    ELSE LET m == CHOOSE x \in ks : \A y \in ks \ {x} : Less(x, y)
         IN <<m>> \o Ascend(ks \ {m})

\* btreeStore.List
List(tree) == [i \in 1..Cardinality(DOMAIN tree) |-> tree[Ascend(DOMAIN tree)[i]]]

\* btreeStore.getByKeyLocked / GetByKey
GetByKey(tree, k) ==
    IF k \in DOMAIN tree
    THEN [item |-> <<tree[k]>>, exists |-> TRUE]
    ELSE [item |-> <<>>, exists |-> FALSE]

\* btreeStore.LimitPrefixRead: AscendGreaterOrEqual from key, stopping when
\* elementsRetrieved == limit or at the first key without the prefix.
RECURSIVE LimitPrefixScan(_, _, _, _, _)
LimitPrefixScan(tree, order, limit, key, got) ==
    IF order = <<>> THEN got
    ELSE IF Len(got) = limit THEN got
    ELSE IF ~HasPrefix(Head(order), key) THEN got
    ELSE LimitPrefixScan(tree, Tail(order), limit, key, Append(got, tree[Head(order)]))

\* A prefix read that walks the tree from its first key.
LimitPrefixReadFromFirst(tree, limit, key) ==
    LimitPrefixScan(tree, Ascend(DOMAIN tree), limit, key, <<>>)

LimitPrefixRead(tree, limit, key) ==
    LimitPrefixScan(tree, Ascend({k \in DOMAIN tree : ~Less(k, key)}), limit, key, <<>>)

\* The index function configured under a name: the index values of a
\* record.  "byRV" indexes a record by the resource version of its object.
indexFunc(name, elem) == <<elem.Object.RV>>

\* btreeStore.deleteKeyFromIndexLocked: a set that becomes empty is deleted.
deleteKeyFromIndexLocked(key, value, index) ==
    IF value \notin DOMAIN index THEN index
    ELSE IF index[value] \ {key} = {}
    THEN [v \in DOMAIN index \ {value} |-> index[v]]
    ELSE [index EXCEPT ![value] = @ \ {key}]

\* btreeStore.addKeyToIndexLocked
addKeyToIndexLocked(key, value, index) ==
    [v \in DOMAIN index \cup {value} |->
        IF v = value
        THEN (IF v \in DOMAIN index THEN index[v] ELSE {}) \cup {key}
        ELSE index[v]]

\* The two loops of updateIndicesLocked over the old and the new values.
RECURSIVE deleteKeyFromIndexEach(_, _, _)
deleteKeyFromIndexEach(key, values, index) ==
    IF values = <<>> THEN index
    ELSE deleteKeyFromIndexEach(key, Tail(values),
                                deleteKeyFromIndexLocked(key, Head(values), index))

RECURSIVE addKeyToIndexEach(_, _, _)
addKeyToIndexEach(key, values, index) ==
    IF values = <<>> THEN index
    ELSE addKeyToIndexEach(key, Tail(values),
                           addKeyToIndexLocked(key, Head(values), index))

\* btreeStore.updateIndicesLocked(oldObj, newObj, key); oldObj and newObj
\* are <<>> when nil.  For every configured index the index is created
\* when it is missing; a single value that did not change is left alone,
\* otherwise the key is deleted under the old values and added under the
\* new ones.
updateIndicesLocked(indices, indexers, oldObj, newObj, key) ==
    [name \in DOMAIN indices \cup indexers |->
        IF name \notin indexers THEN indices[name]
        ELSE LET oldIndexValues == IF oldObj = <<>> THEN <<>>
                                   ELSE indexFunc(name, oldObj[1])
                 indexValues == IF newObj = <<>> THEN <<>>
                                ELSE indexFunc(name, newObj[1])
                 index == IF name \in DOMAIN indices THEN indices[name] ELSE <<>>
             IN IF Len(indexValues) = 1 /\ Len(oldIndexValues) = 1
                   /\ indexValues[1] = oldIndexValues[1]
                THEN index
                ELSE addKeyToIndexEach(key, indexValues,
                         deleteKeyFromIndexEach(key, oldIndexValues, index))]

\* The indices after addOrUpdateLocked(elem) on a store with this tree:
\* the item ReplaceOrInsert returned is the old object, nil when the tree
\* had none for the key.
addOrUpdateIndices(tree, indices, indexers, elem) ==
    updateIndicesLocked(indices, indexers,
                        IF elem.Key \in DOMAIN tree THEN <<tree[elem.Key]>> ELSE <<>>,
                        <<elem>>, elem.Key)

\* The indices after btreeStore.Delete(elem): updateIndicesLocked(obj, nil,
\* key) with the object of the call, before tree.Delete.
deleteIndices(indices, indexers, elem) ==
    updateIndicesLocked(indices, indexers, <<elem>>, <<>>, elem.Key)

\* The indices after btreeStore.Replace: tree.Clear(false) empties the tree
\* only, then addOrUpdateLocked for each object finds no old object.
RECURSIVE replaceIndices(_, _, _)
replaceIndices(indices, indexers, elems) ==
    IF elems = {} THEN indices
    ELSE LET e == CHOOSE x \in elems : TRUE
         IN replaceIndices(updateIndicesLocked(indices, indexers, <<>>, <<e>>, e.Key),
                           indexers, elems \ {e})

\* btreeStore.ByIndex(indexName, indexValue): an error for a name that is
\* not configured or for an indexed key the tree does not hold, otherwise
\* the records of the indexed keys (in the order of a map iteration, so
\* taken as a set).
ByIndex(tree, indices, indexers, indexName, indexValue) ==
    LET index == IF indexName \in DOMAIN indices THEN indices[indexName] ELSE <<>>
        set == IF indexValue \in DOMAIN index THEN index[indexValue] ELSE {}
    IN IF indexName \notin indexers THEN [list |-> {}, err |-> "NoIndex"]
       ELSE IF \E key \in set : ~GetByKey(tree, key).exists
       THEN [list |-> {}, err |-> "NoKey"]
       ELSE [list |-> {GetByKey(tree, key).item[1] : key \in set}, err |-> ""]

\* ---------------------------------------------------------- continueCache

\* continueCache.cleanup(rv)
cleanup(cc, rv) == [r \in DOMAIN cc \ {rv} |-> cc[r]]

\* ------------------------------------------------------------ event buffer

\* The fields of watchCache the buffer functions read and write.
Ring == [capacity |-> capacity, cache |-> cache, startIndex |-> startIndex,
         endIndex |-> endIndex, continueCache |-> continueCache]

\* A buffer that never counts as full.
isCacheFullNever(w) == FALSE

\* watchCache.isCacheFullLocked
isCacheFullLocked(w) == w.endIndex = w.startIndex + w.capacity

\* watchCache.doCacheResizeLocked
doCacheResizeLocked(w, newCapacity) ==
    LET start == IF newCapacity < w.capacity THEN w.endIndex - newCapacity
                 ELSE w.startIndex
        newCache == [j \in 0..(newCapacity - 1) |->
                        IF \E i \in start..(w.endIndex - 1) : i % newCapacity = j
                        THEN w.cache[(CHOOSE i \in start..(w.endIndex - 1) :
                                          i % newCapacity = j) % w.capacity]
                        ELSE NilEvent]
    IN [w EXCEPT !.cache = newCache, !.startIndex = start, !.capacity = newCapacity]

\* A resize that never changes the buffer.
resizeCacheNever(w, eventTime) == w

\* watchCache.resizeCacheLocked
resizeCacheLocked(w, eventTime) ==
    IF isCacheFullLocked(w)
       /\ eventTime - w.cache[w.startIndex % w.capacity].RecordTime < eventFreshDuration
    THEN LET c == Min(w.capacity * 2, defaultUpperBoundCapacity)
         IN IF c > w.capacity THEN doCacheResizeLocked(w, c) ELSE w
    ELSE IF isCacheFullLocked(w)
            /\ eventTime - w.cache[(w.endIndex - (w.capacity \div 4)) % w.capacity].RecordTime
                   > eventFreshDuration
    THEN LET c == Max(w.capacity \div 2, defaultLowerBoundCapacity)
         IN IF c < w.capacity THEN doCacheResizeLocked(w, c) ELSE w
    ELSE w

\* watchCache.updateCache
updateCache(w, event) ==
    LET r == resizeCacheLocked(w, event.RecordTime)
        e == IF isCacheFullLocked(r)
             THEN [r EXCEPT
                     !.continueCache =
                         cleanup(r.continueCache,
                                 r.cache[r.startIndex % r.capacity].ResourceVersion),
                     !.startIndex = r.startIndex + 1]
             ELSE r
    IN [e EXCEPT !.cache[e.endIndex % e.capacity] = event,
                 !.endIndex = e.endIndex + 1]

\* ---------------------------------------------------------------- RWMutex

\* RWMutex.Lock can proceed: no reader and no writer holds the lock.
CanLock == readerCount = 0 /\ ~writerHeld
\* RWMutex.RLock can proceed: no writer holds the lock.
\* A read lock that does not exclude the writer.
CanRLockBesideWriter == TRUE

CanRLock == ~writerHeld

\* ------------------------------------------------- a btreeStore on its own

\* The trees of the store t ("t") and of its clone ("c"), by pointer.
NoTrees == [t |-> <<>>, c |-> <<>>]

\* A Clone that hands out the tree of the store itself.
btreeStoreCloneShared(trees, p) == [trees |-> trees, ptr |-> p]

\* btreeStore.Clone at the level of tree pointers:
\* &btreeStore{tree: t.tree.Clone()}.  BTree.Clone gives a second tree with
\* the same items; the two share nodes and copy them before writing, so a
\* write to one is not seen through the other.
btreeStoreClone(trees, p) == [trees |-> [trees EXCEPT !.c = trees[p]], ptr |-> "c"]

\* No clone yet, no mutation yet, no result yet.
NoClone == [ptr |-> "none", was |-> <<>>]
NoCall == [op |-> "none", elem |-> storeElement(<<>>, Object(<<>>, 0))]
NoResult == [op |-> "none", key |-> <<>>, limit |-> 0, ptr |-> "none",
             item |-> <<>>, exists |-> FALSE, items |-> <<>>,
             name |-> "", value |-> 0, list |-> {}, err |-> "",
             lock |-> <<>>]

\* newBtreeStore(keyFunc, indexers, degree): an empty tree, no index yet.
newBtreeStore(indexers) ==
    [trees |-> NoTrees, indexers |-> indexers, indices |-> <<>>,
     clone |-> NoClone, last |-> NoCall, out |-> NoResult]

\* ------------------------------------------------------------------- Init

\* A continue token as the client sends it.  decoded: the base64 and JSON
\* decoding succeeds; the three fields are those of continueToken.
NoToken == [has |-> FALSE, decoded |-> FALSE, APIVersion |-> "",
            ResourceVersion |-> 0, StartKey |-> <<>>]
Token(v, rv, start) == [has |-> TRUE, decoded |-> TRUE, APIVersion |-> v,
                        ResourceVersion |-> rv, StartKey |-> start]

\* What a reader's call returned: the error or "ok", the resource version
\* and the records.
NoRet == [kind |-> "none", rv |-> 0, items |-> <<>>]
Ret(kind, rv, items) == [kind |-> kind, rv |-> rv, items |-> items]

\* A reader whose call has returned: the result, and of the call what it
\* asked for and what the gate saw (its resource version, and the records
\* the call was to return from the store as the gate saw it).
Returned(c, ret, wanted) ==
    [pc |-> "idle", op |-> c.op, rv |-> c.rv, startTime |-> 0, key |-> <<>>,
     limit |-> c.limit, token |-> NoToken, clone |-> <<>>, gateRV |-> c.gateRV,
     gateStore |-> <<>>, wanted |-> wanted, held |-> c.held, ret |-> ret]

IdleReader == [pc |-> "idle", op |-> "none", rv |-> 0, startTime |-> 0, key |-> <<>>,
               limit |-> 0, token |-> NoToken, clone |-> <<>>, gateRV |-> 0,
               gateStore |-> <<>>, wanted |-> <<>>, held |-> 0, ret |-> NoRet]

\* The watcher holds no interval.
NoInterval == [status |-> "none", rv |-> 0, first |-> 0, last |-> 0, events |-> <<>>]

IdleIngestor == [pc |-> "idle", op |-> "none", event |-> NilEvent]

Init ==
    /\ capacity = defaultLowerBoundCapacity
    /\ cache = [j \in 0..(defaultLowerBoundCapacity - 1) |-> NilEvent]
    /\ startIndex = 0
    /\ endIndex = 0
    /\ store = <<>>
    /\ resourceVersion = 0
    /\ listResourceVersion = 0
    /\ continueCache = <<>>
    /\ readerCount = 0
    /\ writerHeld = FALSE
    /\ waiters = {}
    /\ now = 0
    /\ ing = IdleIngestor
    /\ rd = [r \in Threads |-> IdleReader]
    /\ timer = {}
    /\ misused = FALSE
    /\ watch = NoInterval
    /\ delivered = [n |-> 0, last |-> 0]
    /\ hist = [ref |-> <<>>, applied |-> [n |-> 0, last |-> 0], evicted |-> 0]
    /\ bt = newBtreeStore({})

\* ---------------------------------------------------------------- history

\* A log of resource versions, kept as its length and its last entry.
Logged(log, rv) == [n |-> log.n + 1, last |-> rv]

\* What a mutator call is meant to do to the content of the store: Add and
\* Update put the record under its key, Delete removes the key.
RefApply(tree, type, k, rv) ==
    IF type = "Deleted"
    THEN [x \in DOMAIN tree \ {k} |-> tree[x]]
    ELSE [x \in DOMAIN tree \cup {k} |->
             IF x = k THEN storeElement(k, Object(k, rv)) ELSE tree[x]]

\* The events at the live positions startIndex..endIndex-1 of a buffer.
LiveEvents(w) == {w.cache[p % w.capacity] : p \in w.startIndex..(w.endIndex - 1)}

\* The largest resource version among the events that w held and v no
\* longer holds, or the value so far when there is none.
EvictedBy(sofar, w, v) ==
    LET gone == {e.ResourceVersion : e \in LiveEvents(w) \ LiveEvents(v)}
    IN IF gone = {} THEN sofar
       ELSE Max(sofar, CHOOSE x \in gone : \A y \in gone : y <= x)

\* --------------------------------------------------------------- ingestor

\* The resource versions the reflector can supply next: it calls the
\* mutators one at a time, with strictly increasing resource versions.
NextRVs(maxrv, step) ==
    {rv \in 1..maxrv : rv > resourceVersion /\ rv <= resourceVersion + step}

\* watchCache.Add / Update / Delete up to processEvent's w.Lock(): the key,
\* the storeElement and the watchCacheEvent (RecordTime: w.clock.Now()).
MutatorCall(type, k, rv) ==
    /\ ing.pc = "idle"
    /\ ing' = [pc |-> "lock", op |-> type,
               event |-> watchCacheEvent(type, k, <<Object(k, rv)>>, <<>>, rv, now)]
    /\ UNCHANGED <<bt, cacheVars, lockVars, now, rd, timer, misused, watch, delivered, hist>>

Add(k, rv) == MutatorCall("Added", k, rv)
Update(k, rv) == MutatorCall("Modified", k, rv)
Delete(k, rv) == MutatorCall("Deleted", k, rv)

\* processEvent under the lock, first half: w.Lock(), w.store.Get(elem),
\* the previous object when it exists, w.updateCache(wcEvent),
\* w.resourceVersion = resourceVersion.
processEventLocked ==
    /\ ing.pc = "lock"
    /\ CanLock
    /\ LET elem == storeElement(ing.event.Key, ing.event.Object[1])
           got == btreeStoreGet(store, elem)
           wcEvent == IF got.exists
                      THEN [ing.event EXCEPT !.PrevObject = <<got.item[1].Object>>]
                      ELSE ing.event
           w == updateCache(Ring, wcEvent)
       IN /\ writerHeld' = TRUE
          /\ capacity' = w.capacity
          /\ cache' = w.cache
          /\ startIndex' = w.startIndex
          /\ endIndex' = w.endIndex
          /\ continueCache' = w.continueCache
          /\ resourceVersion' = wcEvent.ResourceVersion
          /\ ing' = [ing EXCEPT !.pc = "update", !.event = wcEvent]
          /\ hist' = [hist EXCEPT !.evicted = EvictedBy(@, Ring, w)]
    /\ UNCHANGED <<bt, store, listResourceVersion, readerCount, waiters, now, rd, timer,
                   misused, watch, delivered>>

\* cond.Broadcast(): every parked reader is woken and has to take the read
\* lock again before it returns from cond.Wait().
Broadcast(rds) ==
    [r \in Threads |-> IF r \in waiters THEN [rds[r] EXCEPT !.pc = "rlock"] ELSE rds[r]]

\* A variant of afterUpdateFunc that calls the event handler after a failed
\* updateFunc as well.
afterUpdateFuncAlways(err) == [ing EXCEPT !.pc = "handler"]

\* processEvent after updateFunc: an error is returned to the caller at once,
\* otherwise the event handler is called after the lock is released.
afterUpdateFunc(err) == IF err THEN IdleIngestor ELSE [ing EXCEPT !.pc = "handler"]

\* processEvent under the lock, second half: updateFunc(elem), then the
\* deferred w.cond.Broadcast() and w.Unlock(); on an error processEvent
\* returns it, otherwise the event handler is called next.
processEventUpdate ==
    /\ ing.pc = "update"
    /\ LET elem == storeElement(ing.event.Key, ing.event.Object[1])
           res == IF ing.op = "Deleted" THEN btreeStoreDelete(store, elem)
                  ELSE btreeStoreAdd(store, elem)
       IN /\ store' = res.tree
          /\ ing' = afterUpdateFunc(res.err)
          /\ hist' = [hist EXCEPT
                        !.ref = RefApply(@, ing.op, ing.event.Key, ing.event.ResourceVersion),
                        !.applied = IF res.err THEN @
                                    ELSE Logged(@, ing.event.ResourceVersion)]
    /\ rd' = Broadcast(rd)
    /\ waiters' = {}
    /\ writerHeld' = FALSE
    /\ UNCHANGED <<bt, capacity, cache, startIndex, endIndex, resourceVersion,
                   listResourceVersion, continueCache, readerCount, now, timer,
                   misused, watch, delivered>>

\* w.eventHandler(wcEvent), outside the lock.
eventHandler ==
    /\ ing.pc = "handler"
    /\ delivered' = Logged(delivered, ing.event.ResourceVersion)
    /\ ing' = IdleIngestor
    /\ UNCHANGED <<bt, cacheVars, lockVars, now, rd, timer, misused, watch, hist>>

\* watchCache.UpdateResourceVersion: w.resourceVersion = rv under the write
\* lock; the bookmark event is handed to the event handler next.
UpdateResourceVersion(rv) ==
    /\ ing.pc = "idle"
    /\ CanLock
    /\ resourceVersion' = rv
    /\ ing' = [pc |-> "handler", op |-> "Bookmark",
               event |-> watchCacheEvent("Bookmark", <<>>, <<>>, <<>>, rv, 0)]
    /\ hist' = [hist EXCEPT !.applied = Logged(@, rv)]
    /\ UNCHANGED <<bt, capacity, cache, startIndex, endIndex, store, listResourceVersion,
                   continueCache, lockVars, now, rd, timer, misused, watch, delivered>>

\* watchCache.Replace: the buffer is emptied, the store replaced, both
\* resource versions set, and the condition broadcast, all under the lock.
Replace(ks, rv) ==
    /\ ing.pc = "idle"
    /\ CanLock
    /\ startIndex' = 0
    /\ endIndex' = 0
    /\ store' = btreeStoreReplace(store, {storeElement(k, Object(k, rv)) : k \in ks})
    /\ listResourceVersion' = rv
    /\ resourceVersion' = rv
    /\ rd' = Broadcast(rd)
    /\ waiters' = {}
    /\ hist' = [hist EXCEPT
                  !.ref = [k \in ks |-> storeElement(k, Object(k, rv))],
                  !.evicted = 0]
    /\ UNCHANGED <<bt, capacity, cache, continueCache, readerCount, writerHeld, now, ing,
                   timer, misused, watch, delivered>>

\* The clock advances.
Tick(maxt) ==
    /\ now < maxt
    /\ now' = now + 1
    /\ UNCHANGED <<bt, cacheVars, lockVars, ing, rd, timer, misused, watch, delivered, hist>>

\* ---------------------------------------------------------- continue token

\* The segments of a path between its '/' bytes (47).
RECURSIVE SplitPath(_, _, _)
SplitPath(p, cur, acc) ==
    IF p = <<>> THEN Append(acc, cur)
    ELSE IF Head(p) = 47 THEN SplitPath(Tail(p), <<>>, Append(acc, cur))
    ELSE SplitPath(Tail(p), Append(cur, Head(p)), acc)

\* path.Clean on the segments of a rooted path: empty and "." segments are
\* dropped, ".." drops the segment before it (and itself at the root).
RECURSIVE CleanSegments(_, _)
CleanSegments(segs, out) ==
    IF segs = <<>> THEN out
    ELSE IF Head(segs) = <<>> \/ Head(segs) = <<46>> THEN CleanSegments(Tail(segs), out)
    ELSE IF Head(segs) = <<46, 46>>
    THEN CleanSegments(Tail(segs), IF out = <<>> THEN out ELSE SubSeq(out, 1, Len(out) - 1))
    ELSE CleanSegments(Tail(segs), Append(out, Head(segs)))

RECURSIVE JoinPath(_)
JoinPath(segs) ==
    IF segs = <<>> THEN <<>> ELSE <<47>> \o Head(segs) \o JoinPath(Tail(segs))

\* path.Clean(p) for a path that starts with '/'.
pathClean(p) ==
    LET segs == CleanSegments(SplitPath(p, <<>>, <<>>), <<>>)
    IN IF segs = <<>> THEN <<47>> ELSE JoinPath(segs)

\* decodeContinue(continueValue, keyPrefix)
decodeContinue(token, keyPrefix) ==
    LET key == IF HasPrefix(token.StartKey, <<47>>) THEN token.StartKey
               ELSE <<47>> \o token.StartKey
        cleaned == pathClean(key)
        bad == [err |-> TRUE, fromKey |-> <<>>, rv |-> 0]
    IN IF ~token.decoded THEN bad
       ELSE IF token.APIVersion # "meta.k8s.io/v1" THEN bad
       ELSE IF token.ResourceVersion = 0 THEN bad
       ELSE IF Len(token.StartKey) = 0 THEN bad
       ELSE IF cleaned # key THEN bad
       ELSE [err |-> FALSE, fromKey |-> keyPrefix \o Tail(cleaned),
             rv |-> token.ResourceVersion]

\* ---------------------------------------------------------------- readers

\* The continue tokens the readers send: none, a valid one ("b"), and one
\* whose start key is not canonical ("a/../b").
Tokens == {NoToken, Token("meta.k8s.io/v1", 1, <<98>>),
           Token("meta.k8s.io/v1", 1, <<97, 47, 46, 46, 47, 98>>)}

\* The read holds left behind by calls that have returned.
RECURSIVE SumHeld(_)
SumHeld(rs) ==
    IF rs = {} THEN 0
    ELSE LET r == CHOOSE x \in rs : TRUE IN rd[r].held + SumHeld(rs \ {r})

Leaked == SumHeld({r \in Threads : rd[r].pc = "idle"})

\* waitUntilFreshAndBlock up to w.RLock(): startTime, and for a resource
\* version above 0 the goroutine that broadcasts once blockTimeout is over.
\* (A call whose timer could not expire by maxt is not started, nor is a
\* call once MaxLeaked read holds have been left behind.)
GateStart(r, op, rv, k, limit, token, maxt) ==
    /\ rd[r].pc = "idle"
    /\ Leaked < MaxLeaked
    /\ rv > 0 => now + blockTimeout <= maxt
    /\ rd' = [rd EXCEPT ![r] = [IdleReader EXCEPT
                 !.pc = "rlock", !.op = op, !.rv = rv, !.startTime = now, !.key = k,
                 !.limit = limit, !.token = token, !.held = rd[r].held]]
    /\ timer' = IF rv > 0 THEN timer \cup {now + blockTimeout} ELSE timer
    /\ UNCHANGED <<bt, cacheVars, lockVars, now, ing, misused, watch, delivered, hist>>

\* The condition of the gate's loop: the cache is not fresh enough.
Stale(r) == resourceVersion < rd[r].rv

\* A time limit that is over as soon as the call starts.
TimedOutAtOnce(r) == now - rd[r].startTime >= 0

\* The gate's time limit is over: w.clock.Since(startTime) >= blockTimeout.
TimedOut(r) == now - rd[r].startTime >= blockTimeout

\* w.RLock() (at the start, or inside cond.Wait() after a wake-up), then the
\* loop of the gate: it returns nil when the cache is fresh enough, the
\* TooLargeResourceVersion error when the time limit is over, and otherwise
\* goes on to w.cond.Wait().  The read lock is held in all three cases.
GateCheck(r) ==
    /\ rd[r].pc = "rlock"
    /\ CanRLock
    /\ readerCount' = readerCount + 1
    /\ rd' = [rd EXCEPT ![r] = [@ EXCEPT
                 !.held = @ + 1,
                 !.pc = IF ~Stale(r) THEN "fresh"
                        ELSE IF TimedOut(r) THEN "tooLarge" ELSE "prewait",
                 !.gateRV = resourceVersion,
                 !.gateStore = store]]
    /\ UNCHANGED <<bt, cacheVars, writerHeld, waiters, now, ing, timer, misused, watch,
                   delivered, hist>>

\* w.cond.Wait(): the reader joins the waiters and releases the read lock.
GateWait(r) ==
    /\ rd[r].pc = "prewait"
    /\ waiters' = waiters \cup {r}
    /\ readerCount' = readerCount - 1
    /\ rd' = [rd EXCEPT ![r] = [@ EXCEPT !.pc = "wait", !.held = @ - 1]]
    /\ UNCHANGED <<bt, cacheVars, writerHeld, now, ing, timer, misused, watch, delivered, hist>>

\* The wake-up goroutine: <-w.clock.After(blockTimeout); w.cond.Broadcast().
TimerFire(d) ==
    /\ d \in timer
    /\ now >= d
    /\ timer' = timer \ {d}
    /\ rd' = Broadcast(rd)
    /\ waiters' = {}
    /\ UNCHANGED <<bt, cacheVars, readerCount, writerHeld, now, ing, misused, watch,
                   delivered, hist>>

\* WaitUntilFreshAndGet after the gate: the deferred w.RUnlock(), the error
\* of the gate, or w.store.GetByKey(key) with w.resourceVersion.
WaitUntilFreshAndGet(r) ==
    /\ rd[r].op = "get"
    /\ rd[r].pc \in {"fresh", "tooLarge"}
    /\ readerCount' = readerCount - 1
    /\ rd' = [rd EXCEPT ![r] =
                 IF rd[r].pc = "tooLarge"
                 THEN Returned([@ EXCEPT !.held = @ - 1], Ret("TooLarge", 0, <<>>), <<>>)
                 ELSE Returned([@ EXCEPT !.held = @ - 1],
                               Ret("ok", resourceVersion, GetByKey(store, rd[r].key).item),
                               GetByKey(rd[r].gateStore, rd[r].key).item)]
    /\ UNCHANGED <<bt, cacheVars, writerHeld, waiters, now, ing, timer, misused, watch,
                   delivered, hist>>

\* WaitUntilFreshAndList, the gate failed: return nil, 0, "", err.
ListTooLarge(r) ==
    /\ rd[r].op = "list"
    /\ rd[r].pc = "tooLarge"
    /\ rd' = [rd EXCEPT ![r] = Returned(@, Ret("TooLarge", 0, <<>>), <<>>)]
    /\ UNCHANGED <<bt, cacheVars, lockVars, now, ing, timer, misused, watch, delivered, hist>>

\* WaitUntilFreshAndList without a limit:
\* return w.store.List(), w.resourceVersion, "", nil.
ListAll(r) ==
    /\ rd[r].op = "list"
    /\ rd[r].pc = "fresh"
    /\ rd[r].limit = 0
    /\ rd' = [rd EXCEPT ![r] =
                 Returned(@, Ret("ok", resourceVersion, List(store)), List(rd[r].gateStore))]
    /\ UNCHANGED <<bt, cacheVars, lockVars, now, ing, timer, misused, watch, delivered, hist>>

\* WaitUntilFreshAndList with a limit, under the read lock: with a continue
\* token the clone cached under resourceVersion (ResourceExpired when there
\* is none), without one a new clone, cached under resourceVersion; then the
\* deferred w.RUnlock().
ListSnapshot(r) ==
    /\ rd[r].op = "list"
    /\ rd[r].pc = "fresh"
    /\ rd[r].limit > 0
    /\ readerCount' = readerCount - 1
    /\ IF rd[r].token.has
       THEN /\ continueCache' = continueCache
            /\ rd' = [rd EXCEPT ![r] =
                        IF rd[r].rv \in DOMAIN continueCache
                        THEN [@ EXCEPT !.pc = "read", !.held = @ - 1,
                                       !.clone = continueCache[rd[r].rv]]
                        ELSE Returned([@ EXCEPT !.held = @ - 1],
                                      Ret("Expired", 0, <<>>), <<>>)]
       ELSE /\ continueCache' = [x \in DOMAIN continueCache \cup {rd[r].rv} |->
                                    IF x = rd[r].rv THEN Clone(store) ELSE continueCache[x]]
            /\ rd' = [rd EXCEPT ![r] = [@ EXCEPT !.pc = "read", !.held = @ - 1,
                                                 !.clone = Clone(store)]]
    /\ UNCHANGED <<bt, capacity, cache, startIndex, endIndex, store, resourceVersion,
                   listResourceVersion, writerHeld, waiters, now, ing, timer, misused,
                   watch, delivered, hist>>

\* The page a limited list is to return from a store: its first limit
\* records, in key order, among those at or after from that have its prefix.
WantedPage(tree, limit, from) ==
    LET all == List([k \in {x \in DOMAIN tree : HasPrefix(x, from)} |-> tree[k]])
    IN IF limit = 0 THEN all ELSE SubSeq(all, 1, Min(limit, Len(all)))

\* The key WaitUntilFreshAndList reads from: key with a trailing '/'.
ListPrefix(k) == IF Len(k) > 0 /\ k[Len(k)] = 47 THEN k ELSE k \o <<47>>

\* WaitUntilFreshAndList with a limit, after the read lock is released: the
\* continue token is decoded (BadRequest when it is not valid), and
\* storeClone.LimitPrefixRead(limit, key) is returned with w.resourceVersion
\* as it is now.  LimitPrefixRead takes t.lock.RLock() and defers
\* t.lock.Unlock(): the clone's lock is released in the wrong mode.
ListRead(r) ==
    /\ rd[r].op = "list"
    /\ rd[r].pc = "read"
    /\ LET prefix == ListPrefix(rd[r].key)
           dec == decodeContinue(rd[r].token, prefix)
           from == IF rd[r].token.has THEN dec.fromKey ELSE prefix
       IN IF rd[r].token.has /\ dec.err
          THEN /\ rd' = [rd EXCEPT ![r] = Returned(@, Ret("BadRequest", 0, <<>>), <<>>)]
               /\ misused' = misused
          ELSE /\ rd' = [rd EXCEPT ![r] =
                            Returned(@, Ret("ok", resourceVersion,
                                            LimitPrefixRead(rd[r].clone, rd[r].limit, from)),
                                     WantedPage(rd[r].gateStore, rd[r].limit, from))]
               /\ misused' = TRUE
    /\ UNCHANGED <<bt, cacheVars, lockVars, now, ing, timer, watch, delivered, hist>>

Reader(r, maxrv, keys, maxt) ==
    \/ \E rv \in 0..maxrv, k \in keys : GateStart(r, "get", rv, k, 0, NoToken, maxt)
    \/ \E rv \in 0..maxrv, limit \in 0..1, token \in Tokens :
          /\ token.has => limit > 0
          /\ GateStart(r, "list", rv, <<47>>, limit, token, maxt)
    \/ GateCheck(r)
    \/ GateWait(r)
    \/ WaitUntilFreshAndGet(r)
    \/ ListTooLarge(r)
    \/ ListAll(r)
    \/ ListSnapshot(r)
    \/ ListRead(r)

Ingestor(maxrv, step, keys) ==
    \/ \E k \in keys, rv \in NextRVs(maxrv, step) : Add(k, rv)
    \/ \E k \in keys, rv \in NextRVs(maxrv, step) : Update(k, rv)
    \/ \E k \in keys, rv \in NextRVs(maxrv, step) : Delete(k, rv)
    \/ processEventLocked
    \/ processEventUpdate
    \/ eventHandler
    \/ \E rv \in NextRVs(maxrv, step) : UpdateResourceVersion(rv)
    \/ \E ks \in SUBSET keys, rv \in NextRVs(maxrv, step) : Replace(ks, rv)

\* ---------------------------------------------------------------- watcher

\* watchCache.isIndexValidLocked
isIndexValidLocked(index) == index >= startIndex

\* sort.Search(n, f): the smallest i in 0..n with f[i], f being false and
\* then true, found by bisection.
RECURSIVE SearchLoop(_, _, _)
SearchLoop(f, i, j) ==
    IF i < j
    THEN LET h == (i + j) \div 2
         IN IF ~f[h] THEN SearchLoop(f, h + 1, j) ELSE SearchLoop(f, i, h)
    ELSE i

sortSearch(n, f) == SearchLoop(f, 0, n)

\* The oldest resource version getAllEventsSinceLocked can deliver; 0 stands
\* for the default case ("watch cache isn't correctly initialized").
oldest ==
    IF listResourceVersion > 0 /\ startIndex = 0 THEN listResourceVersion + 1
    ELSE IF endIndex - startIndex > 0 THEN cache[startIndex % capacity].ResourceVersion
    ELSE 0

\* A window check without the allowance of one resource version.
tooOldStrict(rv) == rv < oldest

\* getAllEventsSinceLocked: the resource version is too old.
\* (uint64: oldest is at least 1 here, so oldest-1 does not wrap.)
tooOld(rv) == rv < oldest - 1

\* A search for the first event at or after the given resource version.
firstAtOrAfter(rv) ==
    sortSearch(endIndex - startIndex,
               [i \in 0..(endIndex - startIndex - 1) |->
                   cache[(startIndex + i) % capacity].ResourceVersion >= rv])

\* getAllEventsSinceLocked: the smallest index at which the event's resource
\* version is greater than the given one.
firstAfter(rv) ==
    sortSearch(endIndex - startIndex,
               [i \in 0..(endIndex - startIndex - 1) |->
                   cache[(startIndex + i) % capacity].ResourceVersion > rv])

\* watchCache.getAllEventsSinceLocked(resourceVersion): the error, or the
\* interval [first, last) of positions (for resourceVersion 0 the interval
\* is built from the store instead).
getAllEventsSinceLocked(rv) ==
    IF oldest = 0 THEN [err |-> "NotInitialized", first |-> 0, last |-> 0]
    ELSE IF rv = 0 THEN [err |-> "FromStore", first |-> 0, last |-> 0]
    ELSE IF tooOld(rv) THEN [err |-> "Expired", first |-> 0, last |-> 0]
    ELSE [err |-> "ok", first |-> startIndex + firstAfter(rv), last |-> endIndex]

\* The watcher calls getAllEventsSinceLocked under the lock and keeps the
\* interval; events records what the positions of the interval held.
getAllEventsSince(rv) ==
    /\ CanRLock
    /\ LET res == getAllEventsSinceLocked(rv)
       IN watch' = [status |-> res.err, rv |-> rv, first |-> res.first, last |-> res.last,
                    events |-> [p \in res.first..(res.last - 1) |-> cache[p % capacity]]]
    /\ UNCHANGED <<bt, cacheVars, lockVars, now, ing, rd, timer, misused, delivered, hist>>

\* watchCache.isRVValid: sort.Search over the live events with the
\* predicate "the resource version is rv".
isRVValid(rv) ==
    sortSearch(endIndex - startIndex,
               [i \in 0..(endIndex - startIndex - 1) |->
                   cache[(startIndex + i) % capacity].ResourceVersion = rv])
        # endIndex - startIndex

\* The watcher calls isRVValid(rv): w.RLock(), the search, and the deferred
\* w.Unlock().  Unlock does not give the read hold back: the reader count
\* stays raised (where the runtime does not stop the program for the
\* unlock of a lock that is not write-locked).  The watcher calls it once.
isRVValidCall(rv) ==
    /\ watch = NoInterval
    /\ CanRLock
    /\ watch' = [NoInterval EXCEPT !.status = IF isRVValid(rv) THEN "valid" ELSE "invalid",
                                   !.rv = rv]
    /\ readerCount' = readerCount + 1
    /\ misused' = TRUE
    /\ UNCHANGED <<bt, cacheVars, writerHeld, waiters, now, ing, rd, timer, delivered, hist>>

\* ------------------------------------------------- a btreeStore on its own

\* The keys "/a", "/ab" and "/b", and the prefixes "/", "/a", "/b" and "/c".
StoreKeys == {<<47, 97>>, <<47, 97, 98>>, <<47, 98>>}
Prefixes == {<<47>>, <<47, 97>>, <<47, 98>>, <<47, 99>>}

\* t.Add(obj), t.Update(obj), t.Delete(obj) on the store t.
StoreCall(op, k, rv) ==
    LET elem == storeElement(k, Object(k, rv))
        res == IF op = "Delete" THEN btreeStoreDelete(bt.trees.t, elem)
               ELSE btreeStoreAdd(bt.trees.t, elem)
    IN /\ bt' = [bt EXCEPT !.trees.t = res.tree,
                           !.indices = IF op = "Delete"
                                       THEN deleteIndices(@, bt.indexers, elem)
                                       ELSE addOrUpdateIndices(bt.trees.t, @,
                                                               bt.indexers, elem),
                           !.last = [op |-> op, elem |-> elem],
                           !.out = NoResult]
       /\ UNCHANGED watchCacheVars

StoreAdd(k, rv) == StoreCall("Add", k, rv)
StoreUpdate(k, rv) == StoreCall("Update", k, rv)
StoreDelete(k, rv) == StoreCall("Delete", k, rv)

\* t.Replace(objs, rv)
StoreReplace(ks, rv) ==
    /\ bt' = [bt EXCEPT
                !.trees.t = btreeStoreReplace(@, {storeElement(k, Object(k, rv)) : k \in ks}),
                !.indices = replaceIndices(@, bt.indexers,
                                           {storeElement(k, Object(k, rv)) : k \in ks}),
                !.last = [NoCall EXCEPT !.op = "Replace"],
                !.out = NoResult]
    /\ UNCHANGED watchCacheVars

\* t.Clone(): the clone is kept, with the items t had when it was taken.
StoreClone ==
    /\ LET c == btreeStoreClone(bt.trees, "t")
       IN bt' = [bt EXCEPT !.trees = c.trees,
                           !.clone = [ptr |-> c.ptr, was |-> bt.trees.t],
                           !.out = NoResult]
    /\ UNCHANGED watchCacheVars

\* t.Get(obj) for an object with the key k.  out.lock: how t.lock was taken
\* and how it was released.
StoreGet(k) ==
    /\ LET res == btreeStoreGet(bt.trees.t, storeElement(k, Object(k, 0)))
       IN bt' = [bt EXCEPT !.out = [NoResult EXCEPT !.op = "Get", !.key = k, !.ptr = "t",
                                                   !.item = res.item,
                                                   !.exists = res.exists,
                                                   !.lock = <<"RLock", "RUnlock">>]]
    /\ UNCHANGED watchCacheVars

\* LimitPrefixRead(limit, key) on the store t or on its clone.
StoreLimitPrefixRead(p, limit, key) ==
    /\ p = "t" \/ p = bt.clone.ptr
    /\ bt' = [bt EXCEPT !.out = [NoResult EXCEPT
                                   !.op = "Read", !.key = key, !.limit = limit, !.ptr = p,
                                   !.items = LimitPrefixRead(bt.trees[p], limit, key),
                                   !.lock = <<"RLock", "Unlock">>]]
    /\ UNCHANGED watchCacheVars

NextStore ==
    \/ \E k \in StoreKeys, rv \in 1..MaxStoreRV : StoreAdd(k, rv)
    \/ \E k \in StoreKeys, rv \in 1..MaxStoreRV : StoreUpdate(k, rv)
    \/ \E k \in StoreKeys : StoreDelete(k, MaxStoreRV)
    \/ \E ks \in SUBSET StoreKeys, rv \in 1..MaxStoreRV : StoreReplace(ks, rv)
    \/ StoreClone
    \/ \E k \in StoreKeys : StoreGet(k)
    \/ \E p \in {"t", "c"}, limit \in 0..MaxLimit, key \in Prefixes :
          StoreLimitPrefixRead(p, limit, key)

SpecStore == Init /\ [][NextStore]_vars

\* A btreeStore built with the index "byRV": the keys "/a" and "/b", the
\* mutators, and ByIndex on the store.
IndexKeys == {<<47, 97>>, <<47, 98>>}
IndexNames == {"byRV"}

\* t = newBtreeStore(keyFunc, indexers, degree)
StoreNew(indexers) ==
    /\ bt' = newBtreeStore(indexers)
    /\ UNCHANGED watchCacheVars

\* t.ByIndex(indexName, indexValue)
StoreByIndex(indexName, indexValue) ==
    /\ LET res == ByIndex(bt.trees.t, bt.indices, bt.indexers, indexName, indexValue)
       IN bt' = [bt EXCEPT !.out = [NoResult EXCEPT !.op = "ByIndex", !.ptr = "t",
                                                   !.name = indexName,
                                                   !.value = indexValue,
                                                   !.list = res.list,
                                                   !.err = res.err,
                                                   !.lock = <<"RLock", "Unlock">>]]
    /\ UNCHANGED watchCacheVars

NextIndex ==
    \/ StoreNew(IndexNames)
    \/ \E k \in IndexKeys, rv \in 1..MaxIndexRV : StoreAdd(k, rv)
    \/ \E k \in IndexKeys, rv \in 1..MaxIndexRV : StoreUpdate(k, rv)
    \/ \E k \in IndexKeys, rv \in 1..MaxIndexRV : StoreDelete(k, rv)
    \/ \E ks \in SUBSET IndexKeys, rv \in 1..MaxIndexRV : StoreReplace(ks, rv)
    \/ \E name \in IndexNames, value \in 1..MaxIndexRV : StoreByIndex(name, value)

SpecIndex == Init /\ [][NextIndex]_vars

\* The event buffer and a watcher: the ingestor adds, deletes and replaces
\* one key with resource versions up to MaxRV, the watcher asks for the
\* events since a resource version, and the clock advances.
OneKey == {<<47, 97>>}
NextRing ==
    \/ \E k \in OneKey, rv \in NextRVs(MaxRV, 1) : Add(k, rv)
    \/ \E k \in OneKey, rv \in NextRVs(MaxRV, 1) : Delete(k, rv)
    \/ processEventLocked
    \/ processEventUpdate
    \/ eventHandler
    \/ \E ks \in SUBSET OneKey, rv \in NextRVs(MaxRV, 1) : Replace(ks, rv)
    \/ \E rv \in 1..MaxRV : getAllEventsSince(rv)
    \/ Tick(MaxTime)

SpecRing == Init /\ [][NextRing]_vars

\* The event buffer and the continue cache: the ingestor adds one key with
\* resource versions up to MaxRV, a reader lists the first page with limit 1
\* at the resource version the cache has reached, and the clock advances.
NextEvict ==
    \/ \E k \in OneKey, rv \in NextRVs(MaxRV, 1) : Add(k, rv)
    \/ processEventLocked
    \/ processEventUpdate
    \/ eventHandler
    \/ \E r \in Readers, rv \in {resourceVersion} \ {0} :
          GateStart(r, "list", rv, <<47>>, 1, NoToken, MaxTime)
    \/ \E r \in Readers : GateCheck(r)
    \/ \E r \in Readers : ListSnapshot(r)
    \/ \E r \in Readers : ListRead(r)
    \/ \E d \in timer : TimerFire(d)
    \/ Tick(MaxTime)

SpecEvict == Init /\ [][NextEvict]_vars

\* The event buffer and a watcher that asks whether a resource version is
\* still in the buffer.
NextValid ==
    \/ \E k \in OneKey, rv \in NextRVs(MaxRV, 1) : Add(k, rv)
    \/ processEventLocked
    \/ processEventUpdate
    \/ eventHandler
    \/ \E rv \in RVs : isRVValidCall(rv)
    \/ Tick(MaxTime)

SpecValid == Init /\ [][NextValid]_vars

\* Several readers that list with a limit at resource version 0, with and
\* without a continue token, beside the ingestor.
NextRace ==
    \/ \E k \in OneKey, rv \in NextRVs(ConcMaxRV, 1) : Add(k, rv)
    \/ processEventLocked
    \/ processEventUpdate
    \/ eventHandler
    \/ \E r \in Racers, token \in {NoToken, Token("meta.k8s.io/v1", 1, <<98>>)} :
          GateStart(r, "list", 0, <<47>>, 1, token, ConcMaxTime)
    \/ \E r \in Racers : GateCheck(r)
    \/ \E r \in Racers : ListSnapshot(r)
    \/ \E r \in Racers : ListRead(r)

SpecRace == Init /\ [][NextRace]_vars

\* The readers and the ingestor, with resource versions up to ConcMaxRV.
Next ==
    \/ Ingestor(ConcMaxRV, 1, OneKey)
    \/ \E r \in Readers : Reader(r, ConcMaxRV, OneKey, ConcMaxTime)
    \/ \E d \in timer : TimerFire(d)
    \/ Tick(ConcMaxTime)

Spec == Init /\ [][Next]_vars

\* The freshness gate on its own: no mutator ever raises the resource
\* version, readers call Get and List, the timers fire and the clock
\* advances.  Every goroutine that can take a step eventually takes one.
NextGate ==
    \/ \E r \in Readers : Reader(r, ConcMaxRV, OneKey, ConcMaxTime)
    \/ \E d \in timer : TimerFire(d)
    \/ Tick(ConcMaxTime)

ReaderStep(r) ==
    \/ GateCheck(r)
    \/ GateWait(r)
    \/ WaitUntilFreshAndGet(r)
    \/ ListTooLarge(r)
    \/ ListAll(r)
    \/ ListSnapshot(r)
    \/ ListRead(r)

SpecGate ==
    /\ Init
    /\ [][NextGate]_vars
    /\ \A r \in Readers : WF_vars(ReaderStep(r))
    /\ WF_vars(\E d \in timer : TimerFire(d))
    /\ WF_vars(Tick(ConcMaxTime))

----------------------------------------------------------------------------
\* Properties.

\* The store as the reference semantics has it once every call with a
\* resource version up to v is applied.
RefAt(v) ==
    IF ing.pc \in {"lock", "update"} /\ ing.event.ResourceVersion <= v
    THEN RefApply(hist.ref, ing.op, ing.event.Key, ing.event.ResourceVersion)
    ELSE hist.ref

EventAt(p) == cache[p % capacity]

\* C1: a reader that holds the read lock after the freshness gate and sees
\* the resource version v sees the store with every mutator call of resource
\* version up to v applied, and with no call of a greater one applied.
C1_ReaderSeesAppliedStore ==
    \A r \in Readers :
        rd[r].pc \in {"fresh", "tooLarge", "prewait"} => store = RefAt(resourceVersion)

C1_Witness ==
    \E r \in Readers :
        /\ rd[r].pc = "fresh"
        /\ rd[r].rv > 0
        /\ DOMAIN store # {}
        /\ ing.pc = "lock"

\* C2: a successful List returns the resource version the gate saw under
\* the read lock and the records the store held at that moment.
C2_ListReturnsGateSnapshot ==
    \A r \in Readers :
        rd[r].pc = "idle" /\ rd[r].op = "list" /\ rd[r].ret.kind = "ok"
            => rd[r].ret.rv = rd[r].gateRV /\ rd[r].ret.items = rd[r].wanted

\* C3: a Get or List call that has returned, with a result or an error,
\* holds no read lock.
C3_ReadLockReleasedOnReturn ==
    \A r \in Readers : rd[r].pc = "idle" => rd[r].held = 0

\* C4: the gate called with resource version R > 0 succeeds only while the
\* cache's resource version is at least R, and fails with
\* TooLargeResourceVersion only while it is below R and at least
\* blockTimeout has passed since the call started.
C4_GateOutcome ==
    \A r \in Readers :
        /\ rd[r].pc = "fresh" => resourceVersion >= rd[r].rv
        /\ rd[r].pc = "tooLarge" =>
              /\ resourceVersion < rd[r].rv
              /\ now - rd[r].startTime >= blockTimeout
        /\ rd[r].pc = "idle" /\ rd[r].op = "get" /\ rd[r].ret.kind = "ok" =>
              rd[r].ret.rv >= rd[r].rv

C4_Witness ==
    \E r \in Readers : rd[r].pc = "tooLarge" /\ rd[r].rv > 0 /\ resourceVersion > 0

\* C5: once a mutator call that brought the resource version to R or above
\* has released the lock, no reader that waits for R is still parked on the
\* condition variable.
C5_WriterWakesWaitingReader ==
    ~writerHeld => \A r \in waiters : resourceVersion < rd[r].rv

\* C6: when no mutator raises the resource version, a gate call with
\* R > 0 eventually returns the TooLargeResourceVersion error.
C6_BlockedReaderTimesOut ==
    \A r \in Readers :
        (rd[r].pc \in {"rlock", "prewait", "wait"} /\ rd[r].rv > 0) ~> (rd[r].pc = "tooLarge")

\* C7: the event handler is called once for every mutator call that was
\* applied, after the call's critical section, with strictly increasing
\* resource versions in the order of application, and never for a call
\* that failed.
C7_HandlerOncePerAppliedCall ==
    /\ [](/\ delivered.n <= hist.applied.n
          /\ hist.applied.n <= delivered.n + 1
          /\ (delivered.n = hist.applied.n => delivered.last = hist.applied.last)
          /\ (ing.pc = "idle" => delivered = hist.applied)
          /\ (delivered.n < hist.applied.n => ing.pc = "handler" /\ ~writerHeld))
    /\ [][delivered' # delivered =>
            /\ delivered'.n = delivered.n + 1
            /\ delivered'.last > delivered.last
            /\ delivered' = hist.applied]_vars

C7_Witness == delivered.n = ConcMaxRV /\ ing.pc = "idle" /\ delivered.last = resourceVersion

\* C8: when EventsSince(rv) succeeds for rv > 0, its interval ends at the
\* end of the buffer and holds, in ascending order and once each, exactly
\* the buffered events with a resource version above rv, and no event
\* above rv has been dropped from the buffer since the last Replace.
C8_IntervalHoldsEventsAfter ==
    \A rv \in RVs :
        LET res == getAllEventsSinceLocked(rv)
        IN CanRLock /\ res.err = "ok" =>
             /\ res.last = endIndex
             /\ res.first \in startIndex..endIndex
             /\ \A p \in startIndex..(endIndex - 1) :
                    p >= res.first <=> EventAt(p).ResourceVersion > rv
             /\ \A p, q \in res.first..(res.last - 1) :
                    p < q => EventAt(p).ResourceVersion < EventAt(q).ResourceVersion
             /\ hist.evicted <= rv

C8_Witness ==
    /\ watch.status = "ok"
    /\ startIndex > 0
    /\ watch.first > startIndex
    /\ watch.last > watch.first
    /\ watch.last = endIndex
    /\ hist.evicted > 0

\* The oldest resource version still available: one above the resource
\* version of the last Replace while nothing has been dropped since,
\* otherwise that of the oldest buffered event.
OldestAvailable ==
    IF startIndex = 0 /\ listResourceVersion > 0 THEN listResourceVersion + 1
    ELSE EventAt(startIndex).ResourceVersion

\* C9: once the cache is initialised, EventsSince(rv) for rv > 0 fails with
\* ResourceExpired exactly when rv is below OldestAvailable - 1.
C9_ExpiredBelowWindow ==
    \A rv \in RVs :
        CanRLock /\ ((startIndex = 0 /\ listResourceVersion > 0) \/ endIndex > startIndex) =>
            (getAllEventsSinceLocked(rv).err = "Expired" <=> rv < OldestAvailable - 1)

C9_Witness ==
    /\ watch.status = "Expired"
    /\ startIndex > 0
    /\ endIndex > startIndex
    /\ watch.rv = EventAt(startIndex).ResourceVersion - 2
    /\ getAllEventsSinceLocked(watch.rv + 1).err = "ok"

\* C10: every position of an interval EventsSince returned is either
\* reported invalid or still holds the event it held when the interval was
\* returned.
C10_IntervalSlotsKeepTheirEvents ==
    CanRLock /\ watch.status = "ok" =>
        \A p \in DOMAIN watch.events :
            isIndexValidLocked(p) => EventAt(p) = watch.events[p]

\* C11: the events at the positions startIndex..endIndex-1 of the buffer
\* have strictly increasing resource versions from each position to the
\* next, whatever was appended, dropped, resized or replaced before.
C11_RingStrictlyIncreasing ==
    \A p \in startIndex..(endIndex - 2) :
        EventAt(p).ResourceVersion < EventAt(p + 1).ResourceVersion

C11_Witness ==
    /\ startIndex > 0
    /\ endIndex - startIndex = capacity
    /\ startIndex % capacity # 0
    /\ listResourceVersion > 0
    /\ hist.evicted > listResourceVersion

\* C12: after every mutator call the cache's resource version is the
\* greatest of the resource version of the last event or bookmark applied
\* and the resource version of the last Replace.
C12_ResourceVersionIsLastApplied ==
    ~writerHeld => resourceVersion = Max(hist.applied.last, listResourceVersion)

\* C13: a first-page list with a limit registers its clone in the continue
\* cache under the resource version the cache had when the clone was taken,
\* the one the call is to return, so that a continuation carrying that
\* resource version reads the same clone.
C13_FirstPageRegisteredUnderItsRV ==
    \A r \in Readers :
        rd[r].pc = "read" /\ ~rd[r].token.has =>
            /\ rd[r].gateRV \in DOMAIN continueCache
            /\ continueCache[rd[r].gateRV] = rd[r].clone

\* C14: a list with a continue token proceeds only with the clone that is
\* registered under the resource version encoded in the token, and a call
\* that fails with ResourceExpired returns no records.
C14_ContinueReadsTokenSnapshot ==
    \A r \in Readers :
        /\ rd[r].pc = "read" /\ rd[r].token.has =>
              /\ rd[r].token.ResourceVersion \in DOMAIN continueCache
              /\ continueCache[rd[r].token.ResourceVersion] = rd[r].clone
        /\ rd[r].pc = "idle" /\ rd[r].ret.kind = "Expired" => rd[r].ret.items = <<>>

\* C15: for every resource version that is a key of the continue cache the
\* buffer holds an event with that resource version or a greater one.
C15_ContinueCacheKeysInWindow ==
    \A r \in DOMAIN continueCache :
        \E p \in startIndex..(endIndex - 1) : EventAt(p).ResourceVersion >= r

\* C16: the event of an Update or Delete carries as PrevObject the object
\* the store held for the key just before the call, and none when the
\* store held no record for the key.
C16_EventCarriesPreviousObject ==
    ing.pc = "update" /\ ing.event.Type \in {"Modified", "Deleted"} =>
        ing.event.PrevObject =
            IF ing.event.Key \in DOMAIN store THEN <<store[ing.event.Key].Object>>
            ELSE <<>>

\* C17: the full listing and the prefix reads of a clone stay those of the
\* store at the moment the clone was taken, whatever is added to, updated
\* in, deleted from or replaced in the store afterwards.
C17_CloneKeepsItsItems ==
    bt.clone.ptr # "none" =>
        /\ List(bt.trees[bt.clone.ptr]) = List(bt.clone.was)
        /\ bt.out.op = "Read" /\ bt.out.ptr = bt.clone.ptr =>
              bt.out.items = LimitPrefixRead(bt.clone.was, bt.out.limit, bt.out.key)

C17_Witness ==
    /\ bt.clone.ptr # "none"
    /\ bt.clone.was # <<>>
    /\ DOMAIN bt.trees.t # DOMAIN bt.clone.was
    /\ bt.last.op = "Replace"
    /\ bt.out.op = "Read" /\ bt.out.ptr = bt.clone.ptr /\ bt.out.items # <<>>

\* C18: a Get for the key of the record just added or updated reports the
\* record, with the existence flag set; a Get for the key of the record
\* just deleted reports nothing.
C18_GetAfterAddAndDelete ==
    bt.out.op = "Get" /\ bt.out.key = bt.last.elem.Key =>
        /\ bt.last.op \in {"Add", "Update"} =>
              bt.out.exists /\ bt.out.item = <<bt.last.elem>>
        /\ bt.last.op = "Delete" => ~bt.out.exists /\ bt.out.item = <<>>

\* The keys of a tree that start with a prefix.
Matching(tree, prefix) == {k \in DOMAIN tree : HasPrefix(k, prefix)}

\* items are records of the tree with the prefix, in ascending key order,
\* and no record with the prefix that is left out comes before one of them.
FirstMatches(items, tree, prefix) ==
    /\ \A i \in 1..Len(items) :
          items[i].Key \in Matching(tree, prefix) /\ items[i] = tree[items[i].Key]
    /\ \A i \in 1..(Len(items) - 1) : Less(items[i].Key, items[i + 1].Key)
    /\ \A k \in Matching(tree, prefix) :
          (\A i \in 1..Len(items) : items[i].Key # k) =>
              \A i \in 1..Len(items) : Less(items[i].Key, k)

\* C19: a prefix read with a limit > 0 returns, in ascending key order, the
\* first min(limit, m) of the m records whose key starts with the prefix.
C19_PrefixReadReturnsFirstMatches ==
    bt.out.op = "Read" /\ bt.out.limit > 0 =>
        LET tree == bt.trees[bt.out.ptr]
        IN /\ Len(bt.out.items)
                 = Min(bt.out.limit, Cardinality(Matching(tree, bt.out.key)))
           /\ FirstMatches(bt.out.items, tree, bt.out.key)

C19_Witness ==
    /\ bt.out.op = "Read"
    /\ bt.out.limit = 1
    /\ bt.out.key = <<47, 97>>
    /\ DOMAIN bt.trees[bt.out.ptr] = StoreKeys
    /\ Len(bt.out.items) = 1

\* C20: a prefix read with limit 0 returns, in ascending key order, all
\* the records whose key starts with the prefix.
C20_PrefixReadUnlimited ==
    bt.out.op = "Read" /\ bt.out.limit = 0 =>
        LET tree == bt.trees[bt.out.ptr]
        IN /\ Len(bt.out.items) = Cardinality(Matching(tree, bt.out.key))
           /\ FirstMatches(bt.out.items, tree, bt.out.key)

\* C21: ByIndex for a configured index name and an index value returns
\* without an error exactly the records the store holds whose index
\* function yields the value, after any Add, Update, Delete and Replace.
C21_ByIndexReturnsCurrentRecords ==
    bt.out.op = "ByIndex" /\ bt.out.name \in bt.indexers =>
        /\ bt.out.err = ""
        /\ bt.out.list =
              {bt.trees.t[k] : k \in {x \in DOMAIN bt.trees.t :
                  \E i \in DOMAIN indexFunc(bt.out.name, bt.trees.t[x]) :
                      indexFunc(bt.out.name, bt.trees.t[x])[i] = bt.out.value}}

\* The capacities the buffer may have: the lower bound times a power of
\* two, up to the upper bound.
RECURSIVE Doublings(_)
Doublings(c) ==
    IF c > defaultUpperBoundCapacity THEN {} ELSE {c} \cup Doublings(2 * c)

\* C22: the capacity is always between the lower and the upper bound and
\* is the lower bound times a power of two, and one append leaves it
\* unchanged, doubles it exactly or halves it exactly.
C22_CapacityDoublesOrHalves ==
    /\ [](/\ capacity >= defaultLowerBoundCapacity
          /\ capacity <= defaultUpperBoundCapacity
          /\ capacity \in Doublings(defaultLowerBoundCapacity))
    /\ [][\/ capacity' = capacity
          \/ capacity' = 2 * capacity
          \/ 2 * capacity' = capacity]_vars

\* The buffer grew to four events recorded at the same time and is back at
\* the lower bound.
C22_Witness ==
    /\ listResourceVersion = 0
    /\ capacity = defaultLowerBoundCapacity
    /\ startIndex = 3
    /\ endIndex = 5
    /\ EventAt(3).RecordTime = 0

\* An append finds the buffer full, its oldest event recorded within
\* eventFreshDuration of the new one, and the capacity below the upper
\* bound.
AppendGrows ==
    /\ ing.pc = "lock"
    /\ ing'.pc = "update"
    /\ isCacheFullLocked(Ring)
    /\ ing.event.RecordTime - EventAt(startIndex).RecordTime < eventFreshDuration
    /\ capacity < defaultUpperBoundCapacity

\* C23 as stated: when an append finds the buffer full of fresh events
\* below the upper bound, the capacity doubles, startIndex advances by 1
\* and the continue cache holds no entry for the oldest event's resource
\* version.
C23_GrowthEvictsOldestEvent ==
    [][AppendGrows =>
          /\ capacity' = 2 * capacity
          /\ startIndex' = startIndex + 1
          /\ EventAt(startIndex).ResourceVersion \notin DOMAIN continueCache']_vars

\* C23, amended: when an append finds the buffer full of fresh events
\* below the upper bound, the capacity doubles and startIndex does not
\* advance: every event stays at its position, the new event is appended
\* after them, and no continue cache entry is removed.
C23_GrowthKeepsOldestEvent ==
    [][AppendGrows =>
          /\ capacity' = 2 * capacity
          /\ startIndex' = startIndex
          /\ endIndex' = endIndex + 1
          /\ \A q \in startIndex..(endIndex - 1) : cache'[q % capacity'] = EventAt(q)
          /\ cache'[endIndex % capacity'] = ing'.event
          /\ continueCache' = continueCache]_vars

C23_Witness ==
    /\ ing.pc = "update"
    /\ capacity = 2 * defaultLowerBoundCapacity
    /\ startIndex = 0
    /\ endIndex = defaultLowerBoundCapacity + 1
    /\ EventAt(endIndex - 1) = ing.event
    /\ EventAt(0).ResourceVersion \in DOMAIN continueCache

\* C24: when an append moves startIndex past events, by overwriting the
\* oldest one or by cutting the buffer down to the newest events on a
\* shrink, the continue cache holds no entry for the resource version of
\* any of them once the append is done.
C24_DroppedEventsLeaveContinueCache ==
    [][endIndex' = endIndex + 1 =>
          \A q \in startIndex..(startIndex' - 1) :
              EventAt(q).ResourceVersion \notin DOMAIN continueCache']_vars

\* A reader is about to read or write the continue cache map, holding the
\* read lock; without a continue token it writes the map.
MapAccess(r) == rd[r].op = "list" /\ rd[r].pc = "fresh" /\ rd[r].limit > 0
MapWrite(r) == MapAccess(r) /\ ~rd[r].token.has

\* C25: no two threads are at the continue cache map at the same time
\* when one of them writes it: not two readers, and no reader beside the
\* ingestor, which cleans the map up inside its critical section.
C25_ContinueCacheAccessExcluded ==
    /\ \A r1, r2 \in Threads :
          r1 # r2 /\ MapAccess(r1) /\ MapAccess(r2) => ~MapWrite(r1) /\ ~MapWrite(r2)
    /\ writerHeld => \A r \in Threads : ~MapAccess(r)

\* C26: no lock is released in a mode it was not taken in, and the reader
\* count of the watchCache lock is the number of read holds of the calls
\* in progress.
C26_LocksReleasedInTheirMode ==
    /\ ~misused
    /\ readerCount = SumHeld(Threads)

\* C27: when no mutator call is in progress, every event in the buffer is
\* one the event handler was called with: none is newer than the last
\* event delivered, and the cache's resource version is not ahead of what
\* was delivered or replaced.
C27_FailedCallLeavesNoTrace ==
    ing.pc = "idle" =>
        /\ \A q \in startIndex..(endIndex - 1) :
              EventAt(q).ResourceVersion <= delivered.last
        /\ resourceVersion <= Max(delivered.last, listResourceVersion)

\* C28: isRVValid(rv) is true exactly when an event at a position
\* startIndex..endIndex-1 has the resource version rv.
C28_RVValidIffInBuffer ==
    \A rv \in RVs :
        CanRLock =>
            (isRVValid(rv) <=>
                \E q \in startIndex..(endIndex - 1) : EventAt(q).ResourceVersion = rv)

============================================================================
